---- MODULE Spec2Model ----
(***************************************************************************)
(* A model of main.py, the ATLAS.ti export to tactic/family table script.  *)
(* Python strings are sequences of one-character strings; a dict whose     *)
(* iteration order the script relies on is a sequence of entries, any      *)
(* other dict is a function whose DOMAIN is its key set.                   *)
(***************************************************************************)
EXTENDS Integers, Sequences, FiniteSets, TLC

\* ------------------------------------------------------------- bounds
\* The longest list of <q> elements read.
MaxQuotes == 2
\* The most <iLink> elements read.
MaxLinks == 2
\* The longest raw code name the name parser is tried on.
MaxRawLen == 6

\* ------------------------------------------------------------ strings
\* Python's None, and pandas' NaN: values no string is equal to (a string
\* is a sequence of one-character strings).
None == <<"None">>
NaN == <<"NaN">>

\* bool(x) of a str-or-None value: None and "" are falsy.
Truthy(x) == x # None /\ x # <<>>

Digits == {"0", "1", "2", "3", "4", "5", "6", "7", "8", "9"}
IsDigit(c) == c \in Digits
\* \s of re, and the characters str.strip() removes.
IsSpace(c) == c \in {" "}

\* ord(c) on the characters the inputs are written in.
Ord(c) ==
    CASE c = " " -> 32 [] c = "(" -> 40 [] c = ")" -> 41
      [] c = "0" -> 48 [] c = "1" -> 49 [] c = "2" -> 50 [] c = "3" -> 51
      [] c = "4" -> 52 [] c = "5" -> 53 [] c = "6" -> 54 [] c = "7" -> 55
      [] c = "8" -> 56 [] c = "9" -> 57 [] c = ";" -> 59
      [] c = "A" -> 65 [] c = "T" -> 84
      [] c = "a" -> 97 [] c = "b" -> 98 [] c = "c" -> 99 [] c = "x" -> 120

\* s < t of two str values: lexicographic by code point.
RECURSIVE StrLess(_, _)
StrLess(s, t) ==
    IF t = <<>> THEN FALSE
    ELSE IF s = <<>> THEN TRUE
    ELSE IF Ord(Head(s)) # Ord(Head(t)) THEN Ord(Head(s)) < Ord(Head(t))
    ELSE StrLess(Tail(s), Tail(t))

\* The length of s without its trailing whitespace.
RECURSIVE RStripLen(_)
RStripLen(s) ==
    IF s = <<>> THEN 0
    ELSE IF IsSpace(s[Len(s)]) THEN RStripLen(SubSeq(s, 1, Len(s) - 1))
    ELSE Len(s)

\* The number of leading whitespace characters of s.
RECURSIVE LSpaces(_)
LSpaces(s) ==
    IF s = <<>> THEN 0
    ELSE IF IsSpace(Head(s)) THEN 1 + LSpaces(Tail(s))
    ELSE 0

RStrip(s) == SubSeq(s, 1, RStripLen(s))
LStrip(s) == SubSeq(s, LSpaces(s) + 1, Len(s))
\* str.strip(): leading and trailing whitespace removed.
Strip(s) == LStrip(RStrip(s))

\* The number of digits that end at position e of s (0 when s[e] is none).
RECURSIVE DigitsBefore(_, _)
DigitsBefore(s, e) ==
    IF e >= 1 /\ e <= Len(s) /\ IsDigit(s[e]) THEN 1 + DigitsBefore(s, e - 1)
    ELSE 0

\* The number of digits that start at position b of s.
RECURSIVE DigitsFrom(_, _)
DigitsFrom(s, b) ==
    IF b >= 1 /\ b <= Len(s) /\ IsDigit(s[b]) THEN 1 + DigitsFrom(s, b + 1)
    ELSE 0

\* ------------------------------------------------- 2. code names
\* re.search(r"\s*\(T(\d+)\)\s*$", raw): the match object as a record, start
\* being m.start() (the length of raw[:m.start()]) and tn being m.group(1).
\* The pattern is anchored at the end, so the only candidate is the suffix
\* that ends at the last character that is not whitespace; the leftmost match
\* starts at the first of the whitespace characters before its "(".
CodeSuffixMatch(raw) ==
    LET e == RStripLen(raw)
        n == DigitsBefore(raw, e - 1)
        p == e - n - 2
    IN  IF e >= 4 /\ raw[e] = ")" /\ n >= 1 /\ p >= 1
           /\ raw[p] = "(" /\ raw[p + 1] = "T"
        THEN [matched |-> TRUE,
              start |-> RStripLen(SubSeq(raw, 1, p - 1)),
              tn |-> SubSeq(raw, p + 2, e - 1)]
        ELSE [matched |-> FALSE, start |-> 0, tn |-> None]

\* code_to_name[cid] for a code of raw name raw.
DisplayName(raw) ==
    LET m == CodeSuffixMatch(raw)
    IN  IF m.matched THEN Strip(SubSeq(raw, 1, m.start)) ELSE raw

\* code_to_tactic_override's entry for a code of raw name raw, None for none.
OverrideOf(raw) ==
    LET m == CodeSuffixMatch(raw)
    IN  IF m.matched THEN m.tn ELSE None

\* dict assignment d[k] = v on a dict held as a function.
Put(d, k, v) == [x \in (DOMAIN d) \cup {k} |-> IF x = k THEN v ELSE d[x]]

\* ------------------------------------------------- 3. quotations
\* Whether r"\(AT(\d+)\)" matches s at position i.
MarkerAt(s, i) ==
    /\ i + 4 <= Len(s)
    /\ s[i] = "(" /\ s[i + 1] = "A" /\ s[i + 2] = "T"
    /\ DigitsFrom(s, i + 3) >= 1
    /\ i + 3 + DigitsFrom(s, i + 3) <= Len(s)
    /\ s[i + 3 + DigitsFrom(s, i + 3)] = ")"

\* atn: group 1 of the leftmost match of re.search(r"\(AT(\d+)\)", name),
\* None when there is no match.
MarkerOf(name) ==
    LET hits == {i \in 1..Len(name) : MarkerAt(name, i)}
    IN  IF hits = {} THEN None
        ELSE LET i == CHOOSE j \in hits : \A k \in hits : j <= k
             IN  SubSeq(name, i + 3, i + 2 + DigitsFrom(name, i + 3))

\* sorted(qs, key=lambda q: q["order"]): a stable insertion sort.
RECURSIVE InsertByOrder(_, _)
InsertByOrder(q, sorted) ==
    IF sorted = <<>> THEN <<q>>
    ELSE IF q.order < Head(sorted).order THEN <<q>> \o sorted
    ELSE <<Head(sorted)>> \o InsertByOrder(q, Tail(sorted))

RECURSIVE SortedByOrder(_)
SortedByOrder(qs) ==
    IF qs = <<>> THEN <<>>
    ELSE InsertByOrder(qs[Len(qs)], SortedByOrder(SubSeq(qs, 1, Len(qs) - 1)))

\* [q for q in qs if q["tactic"]]
HasTactic(q) == Truthy(q.tactic)
TitleQuotesOf(qs) == SortedByOrder(SelectSeq(qs, HasTactic))

\* {q["qid"]: q for q in qs}: the last record of an id wins.
QuotesById(qs) ==
    [id \in {qs[i].qid : i \in 1..Len(qs)} |->
        qs[CHOOSE i \in 1..Len(qs) :
            /\ qs[i].qid = id
            /\ \A j \in 1..Len(qs) : qs[j].qid = id => j <= i]]

\* ScanBack with the comparison of orders made strict.
RECURSIVE ScanBackStrict(_, _, _)
ScanBackStrict(tqs, n, order) ==
    IF n = 0 THEN None
    ELSE IF tqs[n].order < order THEN tqs[n].tactic
    ELSE ScanBackStrict(tqs, n - 1, order)

\* The loop of find_tactic_for over reversed(tqs), tqs[1..n] being still to
\* be visited: the first visited record with order <= order gives the tactic.
RECURSIVE ScanBack(_, _, _)
ScanBack(tqs, n, order) ==
    IF n = 0 THEN None
    ELSE IF tqs[n].order <= order THEN tqs[n].tactic
    ELSE ScanBack(tqs, n - 1, order)

\* ------------------------------------------------- 8. integer keys
\* int(s) of a digit string as a numeral without leading zeros ("0" for 0):
\* the script's values can be wider than TLC's integers.
RECURSIVE Numeral(_)
Numeral(s) ==
    IF Len(s) > 1 /\ Head(s) = "0" THEN Numeral(Tail(s)) ELSE s

\* a < b of two numerals.
NumLess(a, b) ==
    \/ Len(a) < Len(b)
    \/ Len(a) = Len(b) /\ StrLess(a, b)

\* The greatest value of numpy's int64, the dtype of idx.astype(int).
Int64Max ==
    <<"9", "2", "2", "3", "3", "7", "2", "0", "3", "6",
      "8", "5", "4", "7", "7", "5", "8", "0", "7">>

\* Whether astype(int) can hold int(s).
FitsInt64(s) == ~NumLess(Int64Max, Numeral(s))

\* ----------------------------------------------------- ordered dicts
\* A dict whose order the script reads: a sequence of entries [k, v] with
\* distinct keys, in insertion order.
ODKeySet(d) == {d[i].k : i \in 1..Len(d)}
ODKeys(d) == [i \in 1..Len(d) |-> d[i].k]
ODGet(d, key) == d[CHOOSE i \in 1..Len(d) : d[i].k = key].v
\* d[key] = val: a key already in d keeps its place.
ODPut(d, key, val) ==
    IF key \in ODKeySet(d)
    THEN [i \in 1..Len(d) |-> IF d[i].k = key THEN [k |-> key, v |-> val] ELSE d[i]]
    ELSE Append(d, [k |-> key, v |-> val])

\* d.get(k) of a dict held as a function.
Get(d, key) == IF key \in DOMAIN d THEN d[key] ELSE None

\* ------------------------------------------------------------ inputs
Code1 == <<"c", "1">>
Code2 == <<"c", "2">>
\* The ids a <code>, an <item> or an <iLink obj> may carry.
CodeIds == {Code1, Code2}
\* The raw names a <code> may carry.
CodeRawNames ==
    { <<"b">>,
      <<"a">>,
      <<" ", "a", " ", "(", "T", "0", ")">>,
      <<"b", "(", "T", "9", "2", "2", "3", "3", "7", "2", "0", "3", "6",
        "8", "5", "4", "7", "7", "5", "8", "0", "8", ")">> }
\* The id of the <q> element at position order of the document, and the ids
\* an <iLink qRef> may carry.
QuoteIdAt(order) == <<"q", order>>
QuoteIds == {QuoteIdAt(order) : order \in 0..MaxQuotes - 1}
\* The names a <q> may carry.
QuoteRawNames ==
    { <<"x">>,
      <<"(", "A", "T", "9", ")">>,
      <<"x", "(", "A", "T", "1", "0", ")", "(", "A", "T", "9", ")">> }
\* The ids and names a <codeFamily> may carry, and its <item> ids.
FamilyIds == {"f1"}
FamilyNames == {"1. Title", "Other"}
ItemSets == {{Code1, Code2}, {Code1}}

\* ------------------------------------------------------------- state
VARIABLES
    pc,                      \* the step of the script that runs next
    err,                     \* the exception that ended the run, "" for none
    code_to_name,            \* code id -> display name
    code_to_tactic_override, \* code id -> override digits
    quotes,                  \* the list of quotation records
    quotes_by_id,            \* quotation id -> record
    title_quotes,            \* the records with a marker, by order
    families,                \* family id -> [name, items], in document order
    tactic_codes,            \* tactic -> set of code ids, in insertion order
    processed,               \* history: the links the loop of step 5 has handled
    output,                  \* tactic -> row, a row being family name -> cell
    df,                      \* the DataFrame
    raw_in                   \* history: the raw code name under study

vars == <<pc, err, code_to_name, code_to_tactic_override, quotes, quotes_by_id,
          title_quotes, families, tactic_codes, processed, output, df, raw_in>>

\* A DataFrame: its index and columns, and data[row label][column label].
NoFrame == [index |-> <<>>, columns |-> <<>>, data |-> <<>>]

\* The state when step 2 starts, raw being the code name under study.
InitWith(raw) ==
    /\ pc = "codes"
    /\ err = ""
    /\ code_to_name = <<>>
    /\ code_to_tactic_override = <<>>
    /\ quotes = <<>>
    /\ quotes_by_id = <<>>
    /\ title_quotes = <<>>
    /\ families = <<>>
    /\ tactic_codes = <<>>
    /\ processed = {}
    /\ output = <<>>
    /\ df = NoFrame
    /\ raw_in = raw

Init == InitWith(<<>>)

\* ------------------------------------------------- 2. the code index
\* One iteration of the loop over ./codes/code; the ids of the document's
\* code elements are distinct.
ReadCode(cid, raw) ==
    /\ pc = "codes"
    /\ cid \notin DOMAIN code_to_name
    /\ code_to_name' = Put(code_to_name, cid, DisplayName(raw))
    /\ code_to_tactic_override' =
           IF CodeSuffixMatch(raw).matched
           THEN Put(code_to_tactic_override, cid, OverrideOf(raw))
           ELSE code_to_tactic_override
    /\ UNCHANGED <<pc, err, quotes, quotes_by_id, title_quotes, families,
                   tactic_codes, processed, output, df, raw_in>>

\* The loop over the codes ends.
EndCodes ==
    /\ pc = "codes"
    /\ pc' = "quotes"
    /\ UNCHANGED <<err, code_to_name, code_to_tactic_override, quotes,
                   quotes_by_id, title_quotes, families, tactic_codes,
                   processed, output, df, raw_in>>

\* ------------------------------------------------- 3. the quotations
\* One iteration of the loop over .//primDoc//quotations/q.
ReadQuote(qid, name) ==
    /\ pc = "quotes"
    /\ Len(quotes) < MaxQuotes
    /\ qid = QuoteIdAt(Len(quotes))
    /\ quotes' = Append(quotes,
                        [qid |-> qid, order |-> Len(quotes), tactic |-> MarkerOf(name)])
    /\ UNCHANGED <<pc, err, code_to_name, code_to_tactic_override, quotes_by_id,
                   title_quotes, families, tactic_codes, processed, output, df,
                   raw_in>>

\* The loop ends: quotes_by_id and title_quotes are built.
EndQuotes ==
    /\ pc = "quotes"
    /\ quotes_by_id' = QuotesById(quotes)
    /\ title_quotes' = TitleQuotesOf(quotes)
    /\ pc' = "families"
    /\ UNCHANGED <<err, code_to_name, code_to_tactic_override, quotes, families,
                   tactic_codes, processed, output, df, raw_in>>

\* find_tactic_for(qid), for a qid of quotes_by_id.
find_tactic_for(qid) ==
    ScanBack(title_quotes, Len(title_quotes), quotes_by_id[qid].order)

\* ------------------------------------------------- 4. the families
\* One codeFamily element of the dict comprehension.
ReadFamily(fid, name, items) ==
    /\ pc = "families"
    /\ families' = ODPut(families, fid, [name |-> name, items |-> items])
    /\ UNCHANGED <<pc, err, code_to_name, code_to_tactic_override, quotes,
                   quotes_by_id, title_quotes, tactic_codes, processed, output,
                   df, raw_in>>

EndFamilies ==
    /\ pc = "families"
    /\ pc' = "links"
    /\ UNCHANGED <<err, code_to_name, code_to_tactic_override, quotes,
                   quotes_by_id, title_quotes, families, tactic_codes,
                   processed, output, df, raw_in>>

\* ------------------------------------------------- 5. the links
\* EffectiveTactic with the operands of "or" exchanged: the marker first.
EffectiveTacticMarkerFirst(cid, qid) ==
    LET ov == Get(code_to_tactic_override, cid)
        found == IF qid \in DOMAIN quotes_by_id THEN find_tactic_for(qid) ELSE None
    IN  IF Truthy(found) THEN found ELSE ov

\* tac of a link: code_to_tactic_override.get(cid) or find_tactic_for(qid).
\* The right operand is evaluated only when the left one is falsy.
EffectiveTactic(cid, qid) ==
    LET ov == Get(code_to_tactic_override, cid)
    IN  IF Truthy(ov) THEN ov ELSE find_tactic_for(qid)

\* Whether the evaluation of tac raises KeyError (quotes_by_id[qid]).
LinkRaises(cid, qid) ==
    /\ ~Truthy(Get(code_to_tactic_override, cid))
    /\ qid \notin DOMAIN quotes_by_id

\* AddCode with the set of the tactic assigned instead of added to.
AddCodeOverwrite(tc, tac, cid) == ODPut(tc, tac, {cid})

\* tactic_codes[tac].add(cid) on the defaultdict(set).
AddCode(tc, tac, cid) ==
    IF tac \in ODKeySet(tc)
    THEN ODPut(tc, tac, ODGet(tc, tac) \cup {cid})
    ELSE ODPut(tc, tac, {cid})

\* One iteration of the loop over the iLink elements.
ReadLink(cid, qid) ==
    /\ pc = "links"
    /\ Cardinality(processed) < MaxLinks
    /\ IF LinkRaises(cid, qid)
       THEN /\ pc' = "error"
            /\ err' = "KeyError"
            /\ UNCHANGED <<tactic_codes, processed>>
       ELSE /\ tactic_codes' =
                   IF Truthy(EffectiveTactic(cid, qid))
                   THEN AddCode(tactic_codes, EffectiveTactic(cid, qid), cid)
                   ELSE tactic_codes
            /\ processed' = processed \cup {<<cid, qid>>}
            /\ UNCHANGED <<pc, err>>
    /\ UNCHANGED <<code_to_name, code_to_tactic_override, quotes, quotes_by_id,
                   title_quotes, families, output, df, raw_in>>

\* ------------------------------------------------- 6. the rows
\* sorted(S) of a set of code ids: ascending as strings.
RECURSIVE SortedIds(_)
SortedIds(S) ==
    IF S = {} THEN <<>>
    ELSE LET m == CHOOSE x \in S : \A y \in S : ~StrLess(y, x)
         IN  <<m>> \o SortedIds(S \ {m})

\* "; ".join(code_to_name[c] for c in hits)
RECURSIVE JoinNames(_)
JoinNames(hits) ==
    IF hits = <<>> THEN <<>>
    ELSE IF Len(hits) = 1 THEN code_to_name[hits[1]]
    ELSE code_to_name[hits[1]] \o <<";", " ">> \o JoinNames(Tail(hits))

\* hits, the codes of a cell, in the order in which they are written.
Hits(cids, fam_code_ids) == SortedIds(cids \cap fam_code_ids)

\* The cell of one family for a tactic's codes.
Cell(cids, fam_code_ids) ==
    IF Hits(cids, fam_code_ids) # <<>> THEN JoinNames(Hits(cids, fam_code_ids)) ELSE <<>>

\* The row of a tactic: the loop over families.items(), families[1..n]
\* being done; a later family of the same name overwrites the cell.
RECURSIVE RowOf(_, _)
RowOf(cids, n) ==
    IF n = 0 THEN <<>>
    ELSE ODPut(RowOf(cids, n - 1), families[n].v.name,
               Cell(cids, families[n].v.items))

\* Whether step 6 raises KeyError: a code of some cell has no display name.
RowsRaise ==
    \E i \in 1..Len(tactic_codes), j \in 1..Len(families) :
        \E c \in tactic_codes[i].v \cap families[j].v.items :
            c \notin DOMAIN code_to_name

\* The loop over the links ends and step 6 builds output.
BuildOutput ==
    /\ pc = "links"
    /\ IF RowsRaise
       THEN /\ pc' = "error"
            /\ err' = "KeyError"
            /\ UNCHANGED output
       ELSE /\ output' = [i \in 1..Len(tactic_codes) |->
                             [k |-> tactic_codes[i].k,
                              v |-> RowOf(tactic_codes[i].v, Len(families))]]
            /\ pc' = "frame"
            /\ UNCHANGED err
    /\ UNCHANGED <<code_to_name, code_to_tactic_override, quotes, quotes_by_id,
                   title_quotes, families, tactic_codes, processed, df, raw_in>>

\* ------------------------------------------------- 7. the DataFrame
\* The twelve column labels.
cols ==
    << "1. Title", "2. Description", "3. Participant",
       "4. Related Software Artifact", "5. Context", "6. Software Feature",
       "7. Tactic Intent", "8. Target Quality Attribute",
       "9. Other Related Quality Attributes", "10. Measured Impact",
       "11. Level of abstraction", "12. Tool or framework" >>

Range(f) == {f[i] : i \in DOMAIN f}

\* pd.DataFrame.from_dict(out, orient="index"): the rows are turned into
\* column -> {row label -> value} first, so rows that have no cell at all
\* leave nothing behind. Every row of output has the same keys in the same
\* order (one per family name), which are the columns.
FromDict(out) ==
    LET columns == IF out = <<>> THEN <<>> ELSE ODKeys(out[1].v)
    IN  IF columns = <<>> THEN NoFrame
        ELSE [index |-> ODKeys(out),
              columns |-> columns,
              data |-> [t \in ODKeySet(out) |->
                          [c \in Range(columns) |-> ODGet(ODGet(out, t), c)]]]

\* Reindex that leaves the frame's own columns in place.
ReindexKeep(d, labels) == d

\* d.reindex(columns=labels): a label d does not have is a column of NaN.
Reindex(d, labels) ==
    [index |-> d.index,
     columns |-> labels,
     data |-> [t \in Range(d.index) |->
                 [c \in Range(labels) |->
                     IF c \in Range(d.columns) THEN d.data[t][c] ELSE NaN]]]

\* ------------------------------------------------- 8. the row sort
\* Whether int(s) parses.
IntParses(s) == s # <<>> /\ s # None /\ \A i \in 1..Len(s) : IsDigit(s[i])

\* Whether index is labels in a non-decreasing order of int(label).
SortedByInt(index, labels) ==
    /\ Len(index) = Len(labels)
    /\ Range(index) = Range(labels)
    /\ \A i, j \in 1..Len(index) :
           i < j => ~NumLess(Numeral(index[j]), Numeral(index[i]))

\* df.sort_index(key=lambda idx: idx.astype(int)) of frame d, given what
\* astype(int) leaves: the frames the sort may return (the order of labels
\* of equal value is the sort algorithm's).
SortedFrames(d) ==
    {[d EXCEPT !.index = index] :
        index \in {x \in [1..Len(d.index) -> Range(d.index)] : SortedByInt(x, d.index)}}

\* The exception of idx.astype(int) on the labels of d, "" for none.
AsTypeIntError(d) ==
    IF \E i \in 1..Len(d.index) : ~IntParses(d.index[i]) THEN "ValueError"
    ELSE IF \E i \in 1..Len(d.index) : ~FitsInt64(d.index[i]) THEN "OverflowError"
    ELSE ""

\* Steps 7 and 8: from_dict, reindex, sort_index.
BuildFrame ==
    /\ pc = "frame"
    /\ LET d == Reindex(FromDict(output), cols)
       IN  IF AsTypeIntError(d) # ""
           THEN pc' = "error" /\ err' = AsTypeIntError(d) /\ df' = d
           ELSE pc' = "done" /\ df' \in SortedFrames(d) /\ UNCHANGED err
    /\ UNCHANGED <<code_to_name, code_to_tactic_override, quotes, quotes_by_id,
                   title_quotes, families, tactic_codes, processed, output,
                   raw_in>>

\* -------------------------------------------------------- the script
Next ==
    \/ \E cid \in CodeIds, raw \in CodeRawNames : ReadCode(cid, raw)
    \/ EndCodes
    \/ \E qid \in QuoteIds, name \in QuoteRawNames : ReadQuote(qid, name)
    \/ EndQuotes
    \/ \E fid \in FamilyIds, name \in FamilyNames, items \in ItemSets :
           ReadFamily(fid, name, items)
    \/ EndFamilies
    \/ \E cid \in CodeIds, qid \in QuoteIds : ReadLink(cid, qid)
    \/ BuildOutput
    \/ BuildFrame

Spec == Init /\ [][Next]_vars

\* ------------------------------------------- the name parser alone
\* The characters of the raw names the parser is tried on, and the names.
ParseAlphabet == {" ", "a", "(", "T", "7", ")"}
AllRawNames == UNION {[1..n -> ParseAlphabet] : n \in 0..MaxRawLen}

InitParse == \E raw \in AllRawNames : InitWith(raw)
\* Step 2 on a document whose one code has the name under study.
NextParse == ReadCode(Code1, raw_in)
SpecParse == InitParse /\ [][NextParse]_vars

\* ======================================================== properties
Started == pc \notin {"codes", "quotes"}

\* The positions of the quotations that carry a marker and whose order is
\* at most that of quotation qid.
MarkersUpTo(qid) ==
    {i \in 1..Len(quotes) :
        quotes[i].tactic # None /\ quotes[i].order <= quotes_by_id[qid].order}

\* C1: for every quotation id of the index, find_tactic_for returns the
\* tactic of the marker quotation of greatest order among those of order at
\* most the quotation's own, None exactly when there is none, and a
\* quotation with a marker resolves to its own marker's tactic.
C1_NearestMarker ==
    Started =>
        \A qid \in DOMAIN quotes_by_id :
            /\ (find_tactic_for(qid) = None) <=> (MarkersUpTo(qid) = {})
            /\ MarkersUpTo(qid) # {} =>
                   \E i \in MarkersUpTo(qid) :
                       /\ \A j \in MarkersUpTo(qid) : quotes[j].order <= quotes[i].order
                       /\ find_tactic_for(qid) = quotes[i].tactic
            /\ quotes_by_id[qid].tactic # None =>
                   find_tactic_for(qid) = quotes_by_id[qid].tactic

\* Two marker quotations of different tactics, each resolving to its own
\* tactic: the later one to the nearest marker, not to the first.
C1_Witness ==
    /\ Started
    /\ \E a, b \in DOMAIN quotes_by_id :
           /\ quotes_by_id[a].order < quotes_by_id[b].order
           /\ quotes_by_id[a].tactic # None
           /\ quotes_by_id[b].tactic # None
           /\ quotes_by_id[a].tactic # quotes_by_id[b].tactic
           /\ find_tactic_for(b) = quotes_by_id[b].tactic
           /\ find_tactic_for(a) = quotes_by_id[a].tactic

\* C2: every handled link whose code has an override is filed under the
\* override, whatever the override's digits, and under no other tactic, also
\* when the link's quotation resolves through the markers to another tactic.
C2_OverrideWins ==
    \A l \in processed :
        l[1] \in DOMAIN code_to_tactic_override =>
            /\ code_to_tactic_override[l[1]] \in ODKeySet(tactic_codes)
            /\ l[1] \in ODGet(tactic_codes, code_to_tactic_override[l[1]])
            /\ \A i \in 1..Len(tactic_codes) :
                   l[1] \in tactic_codes[i].v =>
                       tactic_codes[i].k = code_to_tactic_override[l[1]]

\* A handled link of a code with override "0" whose quotation resolves
\* through the markers to another tactic.
C2_Witness ==
    \E l \in processed :
        /\ l[1] \in DOMAIN code_to_tactic_override
        /\ code_to_tactic_override[l[1]] = <<"0">>
        /\ l[2] \in DOMAIN quotes_by_id
        /\ find_tactic_for(l[2]) # None
        /\ find_tactic_for(l[2]) # code_to_tactic_override[l[1]]

\* The tactic the specification gives a link: the override of its code if it has
\* one, else what find_tactic_for gives for its quotation.
ClaimedTactic(l) ==
    IF l[1] \in DOMAIN code_to_tactic_override
    THEN code_to_tactic_override[l[1]]
    ELSE find_tactic_for(l[2])

\* C9: after any prefix of the links, code c is under tactic t exactly when
\* some handled link of c has effective tactic t; a link without override
\* and without a marker at or before it adds nothing and makes no key (no
\* key is None or has an empty set).
C9_ExactlyTheHandledLinks ==
    /\ \A i \in 1..Len(tactic_codes) :
           /\ tactic_codes[i].k # None
           /\ tactic_codes[i].v # {}
           /\ \A c \in tactic_codes[i].v :
                  \E l \in processed : l[1] = c /\ ClaimedTactic(l) = tactic_codes[i].k
    /\ \A l \in processed :
           ClaimedTactic(l) # None =>
               /\ ClaimedTactic(l) \in ODKeySet(tactic_codes)
               /\ l[1] \in ODGet(tactic_codes, ClaimedTactic(l))
    /\ \A i, j \in 1..Len(tactic_codes) : tactic_codes[i].k = tactic_codes[j].k => i = j

\* A code without override under two tactics, through two quotations.
C9_Witness ==
    \E c \in CodeIds, i, j \in 1..Len(tactic_codes) :
        /\ i # j
        /\ c \notin DOMAIN code_to_tactic_override
        /\ c \in tactic_codes[i].v \cap tactic_codes[j].v

\* The twelve headers of the table, as the specification lists them.
TwelveHeaders ==
    << "1. Title", "2. Description", "3. Participant",
       "4. Related Software Artifact", "5. Context", "6. Software Feature",
       "7. Tactic Intent", "8. Target Quality Attribute",
       "9. Other Related Quality Attributes", "10. Measured Impact",
       "11. Level of abstraction", "12. Tool or framework" >>

\* C5: the final table has exactly the twelve headers, in their order, and
\* every row has cells for them and for no other family name.
C5_TwelveColumns ==
    pc = "done" =>
        /\ df.columns = TwelveHeaders
        /\ \A t \in Range(df.index) : DOMAIN df.data[t] = Range(TwelveHeaders)

\* A finished table with a row, of an input whose only family has a name
\* that is none of the twelve.
C5_Witness ==
    /\ pc = "done"
    /\ df.index # <<>>
    /\ families # <<>>
    /\ \A j \in 1..Len(families) : families[j].v.name \notin Range(TwelveHeaders)

\* The display names of the codes of S in lexicographic order (names that
\* are equal in any order), joined with "; ".
RECURSIVE JoinedByName(_)
JoinedByName(S) ==
    IF S = {} THEN <<>>
    ELSE LET m == CHOOSE x \in S :
                      \A y \in S : ~StrLess(code_to_name[y], code_to_name[x])
         IN  IF S = {m} THEN code_to_name[m]
             ELSE code_to_name[m] \o <<";", " ">> \o JoinedByName(S \ {m})

\* C3: the cell of every tactic row and every family is the display names
\* of the codes of (the tactic's set intersected with the family's members)
\* in lexicographic order of the names, joined with "; ".
C3_CellSortedByName ==
    pc \in {"frame", "done"} =>
        \A i \in 1..Len(output), j \in 1..Len(families) :
            ODGet(output[i].v, families[j].v.name) =
                JoinedByName(ODGet(tactic_codes, output[i].k) \cap families[j].v.items)

\* Whether no family of name c shares a code with tactic t.
NoHits(t, c) ==
    \A j \in 1..Len(families) :
        families[j].v.name = c => ODGet(tactic_codes, t) \cap families[j].v.items = {}

\* C4: in the final table every row has a cell for each of the twelve
\* columns, none of them null, and a cell without intersecting codes is the
\* empty string, also in a column whose family the input does not define.
C4_EmptyCellIsEmptyString ==
    pc = "done" =>
        \A t \in Range(df.index), c \in Range(TwelveHeaders) :
            /\ c \in DOMAIN df.data[t]
            /\ df.data[t][c] # NaN
            /\ NoHits(t, c) => df.data[t][c] = <<>>

\* C6: the rows of the final table are in ascending order of the integer
\* value of their tactic key, one row for each key of tactic_codes.
C6_RowsSortedOnePerTactic ==
    pc = "done" =>
        /\ \A i, j \in 1..Len(df.index) :
               i < j => ~NumLess(Numeral(df.index[j]), Numeral(df.index[i]))
        /\ Range(df.index) = ODKeySet(tactic_codes)
        /\ Len(df.index) = Len(tactic_codes)

\* C7: a run that has read a link whose quotation is not in the quotation
\* index, or whose code is not in the code index, does not complete.
C7_UnknownReferenceIsFatal ==
    pc = "done" =>
        \A l \in processed :
            l[1] \in DOMAIN code_to_name /\ l[2] \in DOMAIN quotes_by_id

\* Whether s ends in "(T" digits ")", the "(" being at position k.
SuffixAt(s, k) ==
    /\ k + 3 <= Len(s)
    /\ s[k] = "(" /\ s[k + 1] = "T" /\ s[Len(s)] = ")"
    /\ \A i \in (k + 2)..(Len(s) - 1) : IsDigit(s[i])

\* C8: a raw name that, trailing whitespace trimmed, ends in "(T" digits ")"
\* gives those digits as override and, as display name, the raw name
\* without that suffix and without trailing whitespace, what stands before
\* kept as it is; any other raw name is its own display name, without
\* override.
C8_SuffixParsed ==
    Code1 \in DOMAIN code_to_name =>
        LET r == RStrip(raw_in)
        IN  IF \E k \in 1..Len(r) : SuffixAt(r, k)
            THEN LET k == CHOOSE x \in 1..Len(r) : SuffixAt(r, x)
                 IN  /\ Code1 \in DOMAIN code_to_tactic_override
                     /\ code_to_tactic_override[Code1] = SubSeq(r, k + 2, Len(r) - 1)
                     /\ code_to_name[Code1] = RStrip(SubSeq(raw_in, 1, k - 1))
            ELSE /\ code_to_name[Code1] = raw_in
                 /\ Code1 \notin DOMAIN code_to_tactic_override

\* C10: a code with an override is under no tactic but its override, every
\* key of tactic_codes is a non-empty string of digits, and the integer
\* sort of the rows does not fail.
C10_OverridePinsAndKeysSort ==
    /\ \A i \in 1..Len(tactic_codes) :
           /\ tactic_codes[i].k # <<>>
           /\ \A n \in 1..Len(tactic_codes[i].k) : IsDigit(tactic_codes[i].k[n])
           /\ \A c \in tactic_codes[i].v :
                  c \in DOMAIN code_to_tactic_override =>
                      tactic_codes[i].k = code_to_tactic_override[c]
    /\ err \notin {"ValueError", "OverflowError"}

====
